---- MODULE Spec2Model ----
(***************************************************************************)
(* Model of the JSON-lines -> SQLite loader in its two variants:           *)
(*   "plain"    : src/json_to_sqlite.py          (JSONToSQLiteTransfer)    *)
(*   "filtered" : src/json_to_sqlite_filtered.py (JSONToSQLiteFiltered)    *)
(*                                                                         *)
(* Decoded JSON values are records of one uniform shape                    *)
(*   [t, n, s, keys, items]                                                *)
(* t is the Python type of the decoded value: "null" (None), "bool",       *)
(* "int", "float", "str", "arr" (list), "obj" (dict).  n is the number     *)
(* (a bool keeps n = 1 / 0 as in Python, a float is held in tenths),       *)
(* s the string, items the elements of a list or the values of a dict and  *)
(* keys the keys of a dict, parallel to items.                             *)
(***************************************************************************)
EXTENDS Integers, Sequences, FiniteSets, TLC

\* ------------------------------------------------------------------ bounds
MaxLines == 3
MaxBatch == 2
MaxInt == 2
MaxRerunLines == 2

\* ------------------------------------------------------------ JSON values
None == [t |-> "null", n |-> 0, s |-> "", keys |-> <<>>, items |-> <<>>]
JBool(b) == [t |-> "bool", n |-> IF b THEN 1 ELSE 0, s |-> "", keys |-> <<>>, items |-> <<>>]
JInt(i) == [t |-> "int", n |-> i, s |-> "", keys |-> <<>>, items |-> <<>>]
JFloat(tenths) == [t |-> "float", n |-> tenths, s |-> "", keys |-> <<>>, items |-> <<>>]
JStr(x) == [t |-> "str", n |-> 0, s |-> x, keys |-> <<>>, items |-> <<>>]
JArr(xs) == [t |-> "arr", n |-> 0, s |-> "", keys |-> <<>>, items |-> xs]
JObj(ks, xs) == [t |-> "obj", n |-> 0, s |-> "", keys |-> ks, items |-> xs]

\* dict.get(k): the value under k, None when the key is absent
Get(o, k) ==
    IF \E i \in 1..Len(o.keys) : o.keys[i] = k
    THEN o.items[CHOOSE i \in 1..Len(o.keys) : o.keys[i] = k]
    ELSE None

\* k in dict
Has(o, k) == \E i \in 1..Len(o.keys) : o.keys[i] = k

\* dict.get(k, default)
GetOr(o, k, default) == IF Has(o, k) THEN Get(o, k) ELSE default

\* Python truth value of a decoded JSON value
PyTruthy(v) ==
    CASE v.t = "null" -> FALSE
      [] v.t \in {"bool", "int", "float"} -> v.n # 0
      [] v.t = "str" -> v.s # ""
      [] v.t \in {"arr", "obj"} -> Len(v.items) > 0

\* isinstance(v, bool)
IsBool(v) == v.t = "bool"

\* isinstance(v, (int, float)): bool is a subclass of int
IsIntOrFloat(v) == v.t \in {"bool", "int", "float"}

\* v in ("", [], {}, None): == against each literal of the tuple
InEmptyLiterals(v) ==
    \/ v.t = "str" /\ v.s = ""
    \/ v.t = "arr" /\ Len(v.items) = 0
    \/ v.t = "obj" /\ Len(v.items) = 0
    \/ v.t = "null"

\* the two encodings of a boolean
EncodeBool(variant, v) ==
    IF variant = "plain"
    THEN (IF v.n # 0 THEN JStr("yes") ELSE JStr("no"))
    ELSE (IF v.n # 0 THEN JInt(1) ELSE JInt(0))

\* _norm without the isinstance(v, bool) test
NormNoBoolFirst(variant, v) ==
    IF InEmptyLiterals(v) THEN None
    ELSE IF IsIntOrFloat(v) /\ v.n = 0 THEN None
    ELSE v

\* _norm with the encodings of True and False swapped
NormSwapped(variant, v) ==
    IF IsBool(v) THEN EncodeBool(variant, JBool(v.n = 0))
    ELSE IF InEmptyLiterals(v) THEN None
    ELSE IF IsIntOrFloat(v) /\ v.n = 0 THEN None
    ELSE v

\* _norm(v)
_norm(variant, v) ==
    IF IsBool(v) THEN EncodeBool(variant, v)
    ELSE IF InEmptyLiterals(v) THEN None
    ELSE IF IsIntOrFloat(v) /\ v.n = 0 THEN None
    ELSE v

\* ------------------------------------------------------------------ schema
\* self.scalar_schema, in declaration order.  Each column is <<name, group, key>>:
\* group is "collection" / "external" when the name starts with that prefix
\* (col.startswith), and key is the name with the prefix removed (col.replace).
ScalarSchemaPlain ==
    << <<"id", "", "id">>, <<"adult", "", "adult">>, <<"title", "", "title">>,
       <<"original_title", "", "original_title">>, <<"video", "", "video">>,
       <<"budget", "", "budget">>, <<"revenue", "", "revenue">>,
       <<"runtime", "", "runtime">>, <<"status", "", "status">>,
       <<"imdb_id", "", "imdb_id">>, <<"tagline", "", "tagline">>,
       <<"homepage", "", "homepage">>, <<"overview", "", "overview">>,
       <<"popularity", "", "popularity">>, <<"vote_count", "", "vote_count">>,
       <<"vote_average", "", "vote_average">>, <<"release_date", "", "release_date">>,
       <<"original_language", "", "original_language">>,
       <<"poster_path", "", "poster_path">>, <<"backdrop_path", "", "backdrop_path">>,
       <<"collection_id", "collection", "id">>,
       <<"collection_name", "collection", "name">>,
       <<"collection_poster_path", "collection", "poster_path">>,
       <<"collection_backdrop_path", "collection", "backdrop_path">>,
       <<"external_imdb_id", "external", "imdb_id">>,
       <<"external_twitter_id", "external", "twitter_id">>,
       <<"external_facebook_id", "external", "facebook_id">>,
       <<"external_wikidata_id", "external", "wikidata_id">>,
       <<"external_instagram_id", "external", "instagram_id">> >>

\* the filtered variant declares the same columns without 'adult'
ScalarSchemaFiltered ==
    SelectSeq(ScalarSchemaPlain, LAMBDA c : c[1] # "adult")

scalar_schema(variant) ==
    IF variant = "plain" THEN ScalarSchemaPlain ELSE ScalarSchemaFiltered

\* self.child_tables, in declaration (= dict iteration) order
ChildTables ==
    << "movie_genres", "movie_spoken_languages", "movie_origin_countries",
       "movie_production_companies", "movie_production_countries", "movie_videos" >>

ChildTableSet == { ChildTables[i] : i \in 1..Len(ChildTables) }

\* the element fields _split_record reads for each child table, in tuple order
\* (movie_origin_countries: the element itself)
ChildFields(tbl) ==
    CASE tbl = "movie_genres" -> <<"id", "name">>
      [] tbl = "movie_spoken_languages" -> <<"iso_639_1", "name", "english_name">>
      [] tbl = "movie_origin_countries" -> <<>>
      [] tbl = "movie_production_companies" -> <<"id", "name", "origin_country", "logo_path">>
      [] tbl = "movie_production_countries" -> <<"iso_3166_1", "name">>
      [] tbl = "movie_videos" ->
           <<"id", "key", "name", "site", "size", "type", "official", "published_at">>

\* the top-level field each child table is read from
ChildField(tbl) ==
    CASE tbl = "movie_genres" -> "genres"
      [] tbl = "movie_spoken_languages" -> "spoken_languages"
      [] tbl = "movie_origin_countries" -> "origin_country"
      [] tbl = "movie_production_companies" -> "production_companies"
      [] tbl = "movie_production_countries" -> "production_countries"
      [] tbl = "movie_videos" -> "videos"

\* ------------------------------------------------------------ _split_record
\* movie.get("belongs_to_collection") or {}   /   movie.get("external_ids") or {}
OrEmptyDict(v) == IF PyTruthy(v) THEN v ELSE JObj(<<>>, <<>>)

NestedParent(movie, group) ==
    IF group = "collection"
    THEN OrEmptyDict(Get(movie, "belongs_to_collection"))
    ELSE OrEmptyDict(Get(movie, "external_ids"))

\* the raw value one scalar column is read from
ScalarSource(movie, c) ==
    IF c[2] = "" THEN Get(movie, c[1]) ELSE Get(NestedParent(movie, c[2]), c[3])

\* main_row = tuple(scalar_cols)
MainRow(variant, movie) ==
    [ i \in 1..Len(scalar_schema(variant)) |->
        _norm(variant, ScalarSource(movie, scalar_schema(variant)[i])) ]

\* movie.get("videos", {}): the object the videos loop calls .get("results", []) on
VideosObj(movie) == GetOr(movie, "videos", JObj(<<>>, <<>>))

\* the videos loop reading a top-level "results" instead of videos.results
WrongChildSource(movie, tbl) ==
    IF tbl = "movie_videos"
    THEN GetOr(movie, "results", JArr(<<>>))
    ELSE GetOr(movie, ChildField(tbl), JArr(<<>>))

\* the value each child loop iterates: movie.get(field, []), and for videos
\* movie.get("videos", {}).get("results", [])
ChildSource(movie, tbl) ==
    IF tbl = "movie_videos"
    THEN GetOr(VideosObj(movie), "results", JArr(<<>>))
    ELSE GetOr(movie, ChildField(tbl), JArr(<<>>))

\* one child tuple: (mid, _norm(elem.get(f)), ...), or (mid, _norm(iso))
ChildRow(variant, mid, tbl, elem) ==
    IF tbl = "movie_origin_countries"
    THEN << mid, _norm(variant, elem) >>
    ELSE << mid >> \o [ j \in 1..Len(ChildFields(tbl)) |->
                          _norm(variant, Get(elem, ChildFields(tbl)[j])) ]

\* children[tbl]: one tuple per element, in array order; mid = movie["id"]
ChildRows(variant, movie, tbl) ==
    LET src == ChildSource(movie, tbl)
        mid == Get(movie, "id")
    IN  [ k \in 1..Len(src.items) |-> ChildRow(variant, mid, tbl, src.items[k]) ]

Children(variant, movie) ==
    [ tbl \in ChildTableSet |-> ChildRows(variant, movie, tbl) ]

\* The exception _split_record raises on this movie, "none" when it returns.
\* In statement order: .get on a non-dict movie or nested parent
\* (AttributeError), movie["id"] on a movie without id (KeyError), a loop over
\* a non-iterable (TypeError), .get on an element that is no dict
\* (AttributeError).  Loops over a str or a dict are outside the inputs
\* modelled here.
SplitError(variant, movie) ==
    LET badParent(g) == NestedParent(movie, g).t # "obj"
        loopErr(tbl) ==
            IF tbl = "movie_videos" /\ VideosObj(movie).t # "obj" THEN "AttributeError"
            ELSE LET src == ChildSource(movie, tbl)
                 IN  IF src.t # "arr" THEN "TypeError"
                     ELSE IF tbl # "movie_origin_countries"
                             /\ \E k \in 1..Len(src.items) : src.items[k].t # "obj"
                          THEN "AttributeError"
                          ELSE "none"
        firstLoopErr ==
            IF \E i \in 1..Len(ChildTables) : loopErr(ChildTables[i]) # "none"
            THEN loopErr(ChildTables[
                   CHOOSE i \in 1..Len(ChildTables) :
                     /\ loopErr(ChildTables[i]) # "none"
                     /\ \A j \in 1..(i-1) : loopErr(ChildTables[j]) = "none" ])
            ELSE "none"
    IN  IF movie.t # "obj" THEN "AttributeError"
        ELSE IF badParent("collection") \/ badParent("external") THEN "AttributeError"
        ELSE IF ~Has(movie, "id") THEN "KeyError"
        ELSE firstLoopErr

\* -------------------------------------------------------------- _should_skip
\* poster in (None, '')  /  overview in (None, '')
InNoneOrEmptyStr(v) == v.t = "null" \/ (v.t = "str" /\ v.s = "")

\* _should_skip without the overview test
ShouldSkipNoOverview(movie) ==
    \/ PyTruthy(GetOr(movie, "adult", JBool(FALSE)))
    \/ InNoneOrEmptyStr(Get(movie, "poster_path"))

_should_skip(movie) ==
    \/ PyTruthy(GetOr(movie, "adult", JBool(FALSE)))
    \/ InNoneOrEmptyStr(Get(movie, "poster_path"))
    \/ InNoneOrEmptyStr(Get(movie, "overview"))

\* ------------------------------------------------------------- input lines
\* The lines a source file is made of.  kind is "blank" (empty after strip()),
\* "bad" (json.loads raises JSONDecodeError) or "json" (doc is the decoded value).
BlankLine == [kind |-> "blank", doc |-> None]
BadLine == [kind |-> "bad", doc |-> None]
JsonLine(d) == [kind |-> "json", doc |-> d]

Genre(i, name) == JObj(<<"id", "name">>, <<JInt(i), JStr(name)>>)

\* {"id": 5, "title": "X", "adult": false, "budget": 0,
\*  "genres": [{"id": 1, "name": "Action"}], "poster_path": "/p.jpg", "overview": "plot"}
MovieA ==
    JObj(<<"id", "title", "adult", "budget", "genres", "poster_path", "overview">>,
         <<JInt(5), JStr("X"), JBool(FALSE), JInt(0), JArr(<<Genre(1, "Action")>>),
           JStr("/p.jpg"), JStr("plot")>>)

\* a movie with every nested structure present
MovieB ==
    JObj(<<"id", "title", "adult", "video", "popularity", "poster_path", "overview",
           "belongs_to_collection", "external_ids", "genres", "spoken_languages",
           "origin_country", "production_companies", "production_countries", "videos">>,
         <<JInt(7), JStr("B"), JBool(FALSE), JBool(TRUE), JFloat(15), JStr("/b.jpg"),
           JStr("rich"),
           JObj(<<"id", "name", "poster_path">>, <<JInt(10), JStr("Saga"), JStr("")>>),
           JObj(<<"imdb_id", "twitter_id">>, <<JStr("tt7"), None>>),
           JArr(<<Genre(1, "Action"), Genre(2, "Drama")>>),
           JArr(<<JObj(<<"iso_639_1", "name", "english_name">>,
                       <<JStr("en"), JStr("English"), JStr("English")>>)>>),
           JArr(<<JStr("US"), JStr("GB")>>),
           JArr(<<JObj(<<"id", "name", "origin_country", "logo_path">>,
                       <<JInt(3), JStr("Acme"), JStr("US"), None>>)>>),
           JArr(<<JObj(<<"iso_3166_1", "name">>, <<JStr("US"), JStr("USA")>>)>>),
           JObj(<<"results">>,
                <<JArr(<<JObj(<<"id", "key", "name", "site", "size", "type",
                               "official", "published_at">>,
                              <<JStr("v1"), JStr("k1"), JStr("Trailer"), JStr("YouTube"),
                                JInt(0), JStr("Trailer"), JBool(FALSE), JStr("2020")>>)>>)>>)>>)

\* an adult movie
MovieC ==
    JObj(<<"id", "title", "adult", "poster_path", "overview", "genres">>,
         <<JInt(8), JStr("C"), JBool(TRUE), JStr("/c.jpg"), JStr("c"),
           JArr(<<Genre(1, "Action")>>)>>)

\* a movie without "id"
MovieD ==
    JObj(<<"title", "adult", "poster_path", "overview">>,
         <<JStr("D"), JBool(FALSE), JStr("/d.jpg"), JStr("d")>>)

\* nested structures where scalars are expected: a title that is an array, a
\* collection name that is an object, an origin_country element that is an array
\* (adult is the number 0)
MovieE ==
    JObj(<<"id", "title", "adult", "poster_path", "overview",
           "belongs_to_collection", "origin_country">>,
         <<JInt(9), JArr(<<JStr("a")>>), JInt(0), JStr("/e.jpg"), JStr("e"),
           JObj(<<"id", "name">>, <<JInt(3), JObj(<<"en">>, <<JStr("S")>>)>>),
           JArr(<<JArr(<<JStr("x")>>)>>)>>)

\* the id of MovieA again, with an empty overview
MovieF ==
    JObj(<<"id", "title", "adult", "poster_path", "overview", "genres">>,
         <<JInt(5), JStr("Y"), JBool(FALSE), JStr("/f.jpg"), JStr(""),
           JArr(<<Genre(2, "Drama")>>)>>)

\* id 0, no poster_path, no adult key
MovieG ==
    JObj(<<"id", "title", "overview", "genres">>,
         <<JInt(0), JStr("G"), JStr("g"), JArr(<<Genre(1, "Action")>>)>>)

Catalogue ==
    << BlankLine, BadLine, JsonLine(MovieA), JsonLine(MovieB), JsonLine(MovieC),
       JsonLine(MovieD), JsonLine(MovieE), JsonLine(MovieF), JsonLine(MovieG) >>

LineIds == 1..Len(Catalogue)

\* ------------------------------------------------------------------ storage
\* sqlite3 cannot bind a list or a dict: the statement raises
BindFails(row) == \E i \in 1..Len(row) : row[i].t \in {"arr", "obj"}

\* a main row the INSERT OR REPLACE rejects: an unbindable value, or text in
\* the INTEGER PRIMARY KEY column (datatype mismatch)
MainRowFails(row) == BindFails(row) \/ row[1].t = "str"

\* the main rows an executemany writes before it raises: those before the
\* first rejected row; none when the statement fails for another reason (I/O)
MainFailPrefix(rows) ==
    IF \E i \in 1..Len(rows) : MainRowFails(rows[i])
    THEN SubSeq(rows, 1, (CHOOSE i \in 1..Len(rows) :
                   MainRowFails(rows[i]) /\ \A j \in 1..(i-1) : ~MainRowFails(rows[j])) - 1)
    ELSE <<>>

\* the same for the rows of a child table
ChildFailPrefix(rows) ==
    IF \E i \in 1..Len(rows) : BindFails(rows[i])
    THEN SubSeq(rows, 1, (CHOOSE i \in 1..Len(rows) :
                   BindFails(rows[i]) /\ \A j \in 1..(i-1) : ~BindFails(rows[j])) - 1)
    ELSE <<>>

MaxRowId(tbl) ==
    IF tbl = {} THEN 0
    ELSE CHOOSE m \in { r[1].n : r \in tbl } : \A r \in tbl : r[1].n <= m

\* INSERT without OR REPLACE on the main table: the row is added beside the
\* row of the same id
InsertPlain(tbl, row) ==
    IF row[1].t = "null"
    THEN tbl \cup { [row EXCEPT ![1] = JInt(MaxRowId(tbl) + 1)] }
    ELSE tbl \cup { row }

\* INSERT OR REPLACE INTO <main> on id INTEGER PRIMARY KEY: a NULL id takes the
\* next rowid, a present id replaces the row of that id
InsertOrReplace(tbl, row) ==
    IF row[1].t = "null"
    THEN tbl \cup { [row EXCEPT ![1] = JInt(MaxRowId(tbl) + 1)] }
    ELSE { r \in tbl : r[1].n # row[1].n } \cup { row }

RECURSIVE InsertMany(_, _)
\* conn.executemany(MAIN_SQL, rows)
InsertMany(tbl, rows) ==
    IF rows = <<>> THEN tbl
    ELSE InsertMany(InsertOrReplace(tbl, Head(rows)), Tail(rows))

EmptyChildren == [ tbl \in ChildTableSet |-> <<>> ]

\* ------------------------------------------------------------------- _flush
\* The statements of one flush are numbered 1 (main) and 1+i (ChildTables[i]).
StageCount == Len(ChildTables) + 1

StageRows(bm, bc, k) == IF k = 1 THEN bm ELSE bc[ChildTables[k-1]]

StageBad(bm, bc, k) ==
    IF k = 1 THEN \E i \in 1..Len(bm) : MainRowFails(bm[i])
    ELSE \E i \in 1..Len(StageRows(bm, bc, k)) : BindFails(StageRows(bm, bc, k)[i])

\* failAt = 0: every statement succeeds.  failAt = k: statement k raises; it
\* must be executed (main always, a child table only "if rows") and no
\* earlier statement may hold a row sqlite rejects.
CanFailAt(bm, bc, failAt) ==
    IF bm = <<>> THEN failAt = 0
    ELSE IF failAt = 0 THEN \A k \in 1..StageCount : ~StageBad(bm, bc, k)
    ELSE /\ StageRows(bm, bc, failAt) # <<>>
         /\ \A k \in 1..(failAt - 1) : ~StageBad(bm, bc, k)

\* the tables as the open transaction holds them when statement failAt raises
\* (failAt = 0: after the last statement)
TxnMain(dbm, bm, failAt) ==
    IF failAt = 1 THEN InsertMany(dbm, MainFailPrefix(bm))
    ELSE InsertMany(dbm, bm)

TxnChildren(dbc, bc, failAt) ==
    [ tbl \in ChildTableSet |->
        LET k == 1 + CHOOSE i \in 1..Len(ChildTables) : ChildTables[i] = tbl
        IN  IF failAt = 0 \/ k < failAt THEN dbc[tbl] \o bc[tbl]
            ELSE IF k = failAt THEN dbc[tbl] \o ChildFailPrefix(bc[tbl])
            ELSE dbc[tbl] ]

\* a connection in autocommit: what was written before the exception stays
NoRollback(committed, txn) == txn

\* "with conn:" leaving on an exception: conn.rollback()
Rollback(committed, txn) == committed

\* the buffers after the flush: .clear() after each statement that succeeded
ClearedMain(bm, failAt) == IF failAt = 1 THEN bm ELSE <<>>

\* a flush that never clears the child buffers
ChildrenKept(bc, failAt) == bc

ClearedChildren(bc, failAt) ==
    [ tbl \in ChildTableSet |->
        LET k == 1 + CHOOSE i \in 1..Len(ChildTables) : ChildTables[i] = tbl
        IN  IF failAt = 0 \/ k < failAt THEN <<>> ELSE bc[tbl] ]

\* _flush(conn, MAIN_SQL, batch_main, child_insert_sql, batch_children)
_flush(dbm, dbc, bm, bc, failAt) ==
    IF bm = <<>>
    THEN [ok |-> TRUE, db_main |-> dbm, db_children |-> dbc,
          batch_main |-> bm, batch_children |-> bc]
    ELSE [ok |-> failAt = 0,
          db_main |-> IF failAt = 0 THEN TxnMain(dbm, bm, failAt)
                      ELSE Rollback(dbm, TxnMain(dbm, bm, failAt)),
          db_children |-> IF failAt = 0 THEN TxnChildren(dbc, bc, failAt)
                          ELSE Rollback(dbc, TxnChildren(dbc, bc, failAt)),
          batch_main |-> ClearedMain(bm, failAt),
          batch_children |-> ClearedChildren(bc, failAt)]

\* -------------------------------------------------------------------- state
VARIABLES
    variant,         \* "plain" (json_to_sqlite.py) or "filtered" (json_to_sqlite_filtered.py)
    batch_size,      \* self.batch_size
    pc,              \* "start", "loop", "done", "crashed"; "off" outside a transfer
    error,           \* the exception that ended the run, "none" otherwise
    ln,              \* the line number enumerate(fh, 1) gave last
    fh,              \* the lines read so far (indices into Catalogue)
    batch_main,      \* batch_main
    batch_children,  \* batch_children
    db_main,         \* committed rows of the main table
    db_children,     \* committed rows of each child table, in insertion order
    total,           \* total
    skipped,         \* skipped (filtered variant)
    warnings,        \* line numbers of the "[WARN] ... bad JSON at line" messages
    flushLog,        \* history: each _flush call, with the rows handed to it
    splitCalls,      \* history: line numbers whose record went to _split_record
    lastSplit,       \* history: what the last _split_record call returned
    nstage,          \* normaliser runs: "off", "in", "once", "twice"
    nv,              \* normaliser runs: the raw value
    n1,              \* normaliser runs: _norm(nv)
    n2,              \* normaliser runs: _norm(_norm(nv))
    earlier          \* history: the run of transfer() before this one, if any

pipeVars ==
    << pc, error, ln, fh, batch_main, batch_children, db_main, db_children,
       total, skipped, warnings, flushLog, splitCalls, lastSplit, earlier >>

normVars == << nstage, nv, n1, n2 >>

vars == << variant, batch_size, pipeVars, normVars >>

Variants == {"plain", "filtered"}

NoSplit == [ln |-> 0, line |-> 0, main |-> <<>>, children |-> EmptyChildren]

\* n = 1: the first run on this database file in the behaviour.  n = 2: the
\* second; file is the source file of the first (read again by this one),
\* main and children the tables the first run left.
FirstRun == [n |-> 1, file |-> <<>>, main |-> {}, children |-> EmptyChildren]

\* rows a previous run left in the database file
StaleMain(v) == { MainRow(v, MovieC) }

StaleChildren(v) == [ tbl \in ChildTableSet |-> ChildRows(v, MovieC, tbl) ]

\* ------------------------------------------------------------------ transfer
\* the state when transfer() is entered: the database file is new, or holds
\* the tables of an earlier run
Init ==
    /\ variant \in Variants
    /\ batch_size \in 1..MaxBatch
    /\ pc = "start"
    /\ error = "none"
    /\ ln = 0
    /\ fh = <<>>
    /\ batch_main = <<>>
    /\ batch_children = EmptyChildren
    /\ \/ db_main = {} /\ db_children = EmptyChildren
       \/ db_main = StaleMain(variant) /\ db_children = StaleChildren(variant)
    /\ total = 0
    /\ skipped = 0
    /\ warnings = <<>>
    /\ flushLog = <<>>
    /\ splitCalls = <<>>
    /\ lastSplit = NoSplit
    /\ earlier = FirstRun
    /\ nstage = "off"
    /\ nv = None
    /\ n1 = None
    /\ n2 = None

\* _create_tables without the DROP TABLE statements
CreateTablesNoDrop ==
    /\ pc = "start"
    /\ pc' = "loop"
    /\ UNCHANGED << variant, batch_size, error, ln, fh, batch_main, batch_children,
                    db_main, db_children, total, skipped, warnings, flushLog,
                    splitCalls, lastSplit, normVars, earlier >>

\* _create_tables: DROP TABLE IF EXISTS for the seven tables, CREATE, commit
CreateTables ==
    /\ pc = "start"
    /\ pc' = "loop"
    /\ db_main' = {}
    /\ db_children' = EmptyChildren
    /\ UNCHANGED << variant, batch_size, error, ln, fh, batch_main, batch_children,
                    total, skipped, warnings, flushLog, splitCalls, lastSplit, normVars, earlier >>

\* the loop has another line to read
CanRead == pc = "loop" /\ Len(fh) < MaxLines

\* line i of the catalogue is the next line of the source file: any line in a
\* first run, the line the first run read at this place in a second run
IsNextLine(i) ==
    \/ earlier.n = 1
    \/ Len(fh) < Len(earlier.file) /\ i = earlier.file[Len(fh) + 1]

\* the source file has no further line
AtEndOfFile == earlier.n = 1 \/ Len(fh) = Len(earlier.file)

\* a blank line that does not advance the line counter
ReadBlankNoCount ==
    /\ CanRead
    /\ \E i \in LineIds :
         /\ IsNextLine(i)
         /\ Catalogue[i].kind = "blank"
         /\ fh' = Append(fh, i)
    /\ UNCHANGED << variant, batch_size, pc, error, ln, batch_main, batch_children,
                    db_main, db_children, total, skipped, warnings, flushLog,
                    splitCalls, lastSplit, normVars, earlier >>

\* line.strip() is empty: continue
ReadBlank ==
    /\ CanRead
    /\ \E i \in LineIds :
         /\ IsNextLine(i)
         /\ Catalogue[i].kind = "blank"
         /\ fh' = Append(fh, i)
    /\ ln' = ln + 1
    /\ UNCHANGED << variant, batch_size, pc, error, batch_main, batch_children,
                    db_main, db_children, total, skipped, warnings, flushLog,
                    splitCalls, lastSplit, normVars, earlier >>

\* json.loads raises JSONDecodeError: warn with the line number, continue
ReadBad ==
    /\ CanRead
    /\ \E i \in LineIds :
         /\ IsNextLine(i)
         /\ Catalogue[i].kind = "bad"
         /\ fh' = Append(fh, i)
    /\ ln' = ln + 1
    /\ warnings' = Append(warnings, ln + 1)
    /\ UNCHANGED << variant, batch_size, pc, error, batch_main, batch_children,
                    db_main, db_children, total, skipped, flushLog,
                    splitCalls, lastSplit, normVars, earlier >>

\* the filter of the variant: only the filtered variant calls _should_skip
Filtered(v, movie) == v = "filtered" /\ _should_skip(movie)

\* filtered variant: _should_skip(movie) is true: skipped += 1, continue
ReadSkip ==
    /\ CanRead
    /\ \E i \in LineIds :
         /\ IsNextLine(i)
         /\ Catalogue[i].kind = "json"
         /\ Filtered(variant, Catalogue[i].doc)
         /\ fh' = Append(fh, i)
    /\ ln' = ln + 1
    /\ skipped' = skipped + 1
    /\ UNCHANGED << variant, batch_size, pc, error, batch_main, batch_children,
                    db_main, db_children, total, warnings, flushLog,
                    splitCalls, lastSplit, normVars, earlier >>

\* _split_record raises: nothing in transfer() catches it, the run ends
ReadCrash ==
    /\ CanRead
    /\ \E i \in LineIds :
         /\ IsNextLine(i)
         /\ Catalogue[i].kind = "json"
         /\ ~Filtered(variant, Catalogue[i].doc)
         /\ SplitError(variant, Catalogue[i].doc) # "none"
         /\ fh' = Append(fh, i)
         /\ error' = SplitError(variant, Catalogue[i].doc)
    /\ ln' = ln + 1
    /\ pc' = "crashed"
    /\ splitCalls' = Append(splitCalls, ln + 1)
    /\ UNCHANGED << variant, batch_size, batch_main, batch_children,
                    db_main, db_children, total, skipped, warnings, flushLog,
                    lastSplit, normVars, earlier >>

\* a flush that waits for one row more than batch_size
AutoFlushTooLate(n) == n > batch_size

\* if len(batch_main) >= self.batch_size
ShouldAutoFlush(n) == n >= batch_size

\* a record is split and buffered; the buffer is flushed when it is full
ReadRecord ==
    /\ CanRead
    /\ \E i \in LineIds :
         /\ IsNextLine(i)
         /\ Catalogue[i].kind = "json"
         /\ ~Filtered(variant, Catalogue[i].doc)
         /\ SplitError(variant, Catalogue[i].doc) = "none"
         /\ LET movie == Catalogue[i].doc
                main_row == MainRow(variant, movie)
                children == Children(variant, movie)
                bm == Append(batch_main, main_row)
                bc == [ tbl \in ChildTableSet |-> batch_children[tbl] \o children[tbl] ]
            IN  /\ fh' = Append(fh, i)
                /\ lastSplit' = [ln |-> ln + 1, line |-> i, main |-> main_row,
                                 children |-> children]
                /\ IF ShouldAutoFlush(Len(bm))
                   THEN \E failAt \in 0..StageCount :
                          /\ CanFailAt(bm, bc, failAt)
                          /\ LET r == _flush(db_main, db_children, bm, bc, failAt)
                             IN  /\ batch_main' = r.batch_main
                                 /\ batch_children' = r.batch_children
                                 /\ db_main' = r.db_main
                                 /\ db_children' = r.db_children
                                 /\ flushLog' = Append(flushLog,
                                        [auto |-> TRUE, ok |-> r.ok,
                                         main |-> bm, children |-> bc])
                                 /\ total' = IF r.ok THEN total + batch_size ELSE total
                                 /\ pc' = IF r.ok THEN "loop" ELSE "crashed"
                                 /\ error' = IF r.ok THEN "none" ELSE "sqlite3.Error"
                   ELSE /\ batch_main' = bm
                        /\ batch_children' = bc
                        /\ UNCHANGED << db_main, db_children, flushLog, total, pc, error >>
    /\ ln' = ln + 1
    /\ splitCalls' = Append(splitCalls, ln + 1)
    /\ UNCHANGED << variant, batch_size, skipped, warnings, normVars, earlier >>

\* total += len(batch_main), executed after the last _flush returned
FinalTotal(tot, before, after) == tot + Len(after)

\* end of input: flush the remainder, report, close
FinalFlush ==
    /\ pc = "loop"
    /\ AtEndOfFile
    /\ \E failAt \in 0..StageCount :
         /\ CanFailAt(batch_main, batch_children, failAt)
         /\ LET r == _flush(db_main, db_children, batch_main, batch_children, failAt)
            IN  /\ batch_main' = r.batch_main
                /\ batch_children' = r.batch_children
                /\ db_main' = r.db_main
                /\ db_children' = r.db_children
                /\ flushLog' = Append(flushLog,
                       [auto |-> FALSE, ok |-> r.ok,
                        main |-> batch_main, children |-> batch_children])
                /\ total' = IF r.ok THEN FinalTotal(total, batch_main, r.batch_main)
                            ELSE total
                /\ pc' = IF r.ok THEN "done" ELSE "crashed"
                /\ error' = IF r.ok THEN "none" ELSE "sqlite3.Error"
    /\ UNCHANGED << variant, batch_size, ln, fh, skipped, warnings,
                    splitCalls, lastSplit, normVars, earlier >>

Next ==
    \/ CreateTables
    \/ ReadBlank
    \/ ReadBad
    \/ ReadSkip
    \/ ReadCrash
    \/ ReadRecord
    \/ FinalFlush

Spec == Init /\ [][Next]_vars

\* ------------------------------------------------------------- a second run
\* transfer() has returned and the program is started again with the same
\* source file, database file and settings
Rerun ==
    /\ pc = "done"
    /\ earlier.n = 1
    /\ Len(fh) <= MaxRerunLines
    /\ earlier' = [n |-> 2, file |-> fh, main |-> db_main, children |-> db_children]
    /\ pc' = "start"
    /\ error' = "none"
    /\ ln' = 0
    /\ fh' = <<>>
    /\ batch_main' = <<>>
    /\ batch_children' = EmptyChildren
    /\ total' = 0
    /\ skipped' = 0
    /\ warnings' = <<>>
    /\ flushLog' = <<>>
    /\ splitCalls' = <<>>
    /\ lastSplit' = NoSplit
    /\ UNCHANGED << variant, batch_size, db_main, db_children, normVars >>

NextRerun == Next \/ Rerun

SpecRerun == Init /\ [][NextRerun]_vars

\* ------------------------------------------------------ the normaliser alone
\* raw JSON values _norm is applied to
NormInputs ==
    { None, JBool(TRUE), JBool(FALSE) }
    \cup { JInt(i) : i \in (0 - MaxInt)..MaxInt }
    \cup { JFloat(f) : f \in {0, 5, 10, 0 - 5} }
    \cup { JStr(x) : x \in {"", "a", "0", "yes", "no"} }
    \cup { JArr(<<>>), JArr(<<JInt(0)>>), JArr(<<JArr(<<>>)>>) }
    \cup { JObj(<<>>, <<>>), JObj(<<"a">>, <<JInt(0)>>) }

NormInit ==
    /\ variant \in Variants
    /\ nv \in NormInputs
    /\ nstage = "in"
    /\ n1 = None
    /\ n2 = None
    /\ batch_size = 1
    /\ pc = "off"
    /\ error = "none"
    /\ ln = 0
    /\ fh = <<>>
    /\ batch_main = <<>>
    /\ batch_children = EmptyChildren
    /\ db_main = {}
    /\ db_children = EmptyChildren
    /\ total = 0
    /\ skipped = 0
    /\ warnings = <<>>
    /\ flushLog = <<>>
    /\ splitCalls = <<>>
    /\ lastSplit = NoSplit
    /\ earlier = FirstRun

\* _norm applied to the raw value
NormOnce ==
    /\ nstage = "in"
    /\ n1' = _norm(variant, nv)
    /\ nstage' = "once"
    /\ UNCHANGED << variant, batch_size, pipeVars, nv, n2 >>

\* _norm applied to its own result
NormTwice ==
    /\ nstage = "once"
    /\ n2' = _norm(variant, n1)
    /\ nstage' = "twice"
    /\ UNCHANGED << variant, batch_size, pipeVars, nv, n1 >>

NormNext == NormOnce \/ NormTwice

SpecNorm == NormInit /\ [][NormNext]_vars

\* ------------------------------------------------------ history operators
Positions == [ i \in 1..Len(fh) |-> i ]

LineAt(i) == Catalogue[fh[i]]

\* what _split_record returns for each line of the catalogue, per variant
SplitMainOf == [ v \in Variants |-> [ i \in LineIds |-> MainRow(v, Catalogue[i].doc) ] ]

SplitChildrenOf ==
    [ v \in Variants |-> [ i \in LineIds |-> Children(v, Catalogue[i].doc) ] ]

\* positions (1-based, in file order) of the lines json.loads rejected
BadPositions == SelectSeq(Positions, LAMBDA i : LineAt(i).kind = "bad")

\* positions of the records that parsed and were not filtered out
AcceptedPositions ==
    SelectSeq(Positions, LAMBDA i : /\ LineAt(i).kind = "json"
                                    /\ ~Filtered(variant, LineAt(i).doc))

\* the main rows of the accepted records, in file order
AcceptedMain ==
    [ k \in 1..Len(AcceptedPositions) |->
        SplitMainOf[variant][fh[AcceptedPositions[k]]] ]

RECURSIVE ChildRowsOf(_, _)
\* the child rows of the records at the given positions, in file order
ChildRowsOf(ps, tbl) ==
    IF ps = <<>> THEN <<>>
    ELSE SplitChildrenOf[variant][fh[Head(ps)]][tbl] \o ChildRowsOf(Tail(ps), tbl)

RECURSIVE HandedMain(_)
\* the main rows handed to the flushes of a log, in order
HandedMain(log) ==
    IF log = <<>> THEN <<>> ELSE log[1].main \o HandedMain(Tail(log))

RECURSIVE CommittedMain(_)
\* the main table made of the flushes of a log that returned
CommittedMain(log) ==
    IF log = <<>> THEN {}
    ELSE LET prev == CommittedMain(SubSeq(log, 1, Len(log) - 1))
             e == log[Len(log)]
         IN  IF e.ok THEN InsertMany(prev, e.main) ELSE prev

RECURSIVE CommittedChildren(_, _)
\* a child table made of the flushes of a log that returned
CommittedChildren(log, tbl) ==
    IF log = <<>> THEN <<>>
    ELSE LET prev == CommittedChildren(SubSeq(log, 1, Len(log) - 1), tbl)
             e == log[Len(log)]
         IN  IF e.ok /\ e.main # <<>> THEN prev \o e.children[tbl] ELSE prev

AutoFlushes == SelectSeq(flushLog, LAMBDA e : e.auto)

Running == pc \in {"loop", "done"}

\* ------------------------------------------------------------------- claims
\* C1: the inserts of one flush are committed together or not at all: at
\* every point of a run the main table and each child table hold exactly the
\* rows of the flushes that returned; a flush that raised at any statement
\* (the main insert or a child insert after it) left none of its rows, and
\* the rows of the earlier flushes are as they were.
C1_FlushAtomic ==
    pc \in {"loop", "done", "crashed"} =>
        /\ db_main = CommittedMain(flushLog)
        /\ \A tbl \in ChildTableSet :
             db_children[tbl] = CommittedChildren(flushLog, tbl)

\* an earlier flush committed, then a flush raised in a child insert after
\* its main insert had succeeded
C1_Witness ==
    /\ pc = "crashed"
    /\ error = "sqlite3.Error"
    /\ Len(flushLog) = 2
    /\ flushLog[1].ok
    /\ ~flushLog[2].ok
    /\ batch_main = <<>>
    /\ db_main # {}

\* C2: when transfer() finishes, the total it reports equals the number of
\* main rows it handed to flushes during the run.
C2_TotalEqualsHanded ==
    pc = "done" => total = Len(HandedMain(flushLog))

\* C3: with N accepted records and batch size B there are floor(N/B)
\* automatic flushes of exactly B main rows each, triggered as soon as the
\* buffer reaches B, then one final flush of the N mod B remaining rows; the
\* main buffer never holds more than B rows; after the final flush the
\* buffers are empty and all N records are committed.
C3_BatchSchedule ==
    LET N == Len(AcceptedPositions)
        B == batch_size
    IN  /\ Len(batch_main) <= B
        /\ \A k \in 1..Len(flushLog) :
             flushLog[k].auto => Len(flushLog[k].main) = B
        /\ Running =>
             /\ Len(AutoFlushes) = N \div B
             /\ \A k \in 1..Len(AutoFlushes) : flushLog[k].auto
        /\ pc = "loop" => Len(batch_main) = N % B
        /\ pc = "done" =>
             /\ Len(flushLog) = (N \div B) + 1
             /\ ~flushLog[Len(flushLog)].auto
             /\ Len(flushLog[Len(flushLog)].main) = N % B
             /\ batch_main = <<>>
             /\ batch_children = EmptyChildren
             /\ db_main = InsertMany({}, AcceptedMain)
             /\ \A tbl \in ChildTableSet :
                  db_children[tbl] = ChildRowsOf(AcceptedPositions, tbl)

\* three accepted records with batch size two: one automatic flush, then a
\* final flush of one row
C3_Witness ==
    /\ pc = "done"
    /\ batch_size = 2
    /\ Len(AcceptedPositions) = 3
    /\ Len(flushLog) = 2
    /\ Len(flushLog[2].main) = 1

\* C4: a record that parses but has no id is skipped and the run goes on:
\* no record without id ends the run.
C4_MissingIdRecoverable ==
    \A i \in 1..Len(fh) :
        ( /\ LineAt(i).kind = "json"
          /\ ~Filtered(variant, LineAt(i).doc)
          /\ ~Has(LineAt(i).doc, "id") )
        => ~(pc = "crashed" /\ i = Len(fh) /\ error = "KeyError")

\* C5: a line that fails to parse is reported once with its 1-based physical
\* line number (blank and skipped lines count), adds no row to any buffer or
\* table, and the loop goes on; blank lines add nothing either: the rows
\* handed on are those of the accepted records alone, and at the end of the
\* run the tables hold the rows of all of them.
C5_BadLinesSkipped ==
    /\ warnings = BadPositions
    /\ Running => HandedMain(flushLog) \o batch_main = AcceptedMain
    /\ pc = "done" =>
         /\ db_main = InsertMany({}, AcceptedMain)
         /\ \A tbl \in ChildTableSet :
              db_children[tbl] = ChildRowsOf(AcceptedPositions, tbl)

\* a blank line, a malformed line reported as line 2, then a valid record
\* that is stored
C5_Witness ==
    /\ pc = "done"
    /\ Len(fh) = 3
    /\ LineAt(1).kind = "blank"
    /\ LineAt(2).kind = "bad"
    /\ warnings = <<2>>
    /\ LineAt(3).kind = "json"
    /\ db_main # {}

\* C6 as stated: normalize(normalize(v)) = normalize(v) for every v, under
\* both boolean encodings.
C6_IdempotentAll ==
    nstage = "twice" => n2 = n1

\* C6 amended: normalize(normalize(v)) = normalize(v) for every v under the
\* token-pair encoding, and for every v other than the boolean false under
\* the integer-pair encoding.
C6_IdempotentExceptFalse ==
    ( /\ nstage = "twice"
      /\ ~(variant = "filtered" /\ nv.t = "bool" /\ nv.n = 0) )
    => n2 = n1

\* the boolean true under the integer-pair encoding: 1, and 1 again
C6_Witness ==
    /\ nstage = "twice"
    /\ variant = "filtered"
    /\ nv = JBool(TRUE)
    /\ n1 = JInt(1)
    /\ n2 = JInt(1)

\* the rules of the normaliser in priority order, on the JSON type of v
NormReference(v_variant, v) ==
    CASE v.t = "bool" /\ v_variant = "plain" ->
             (IF v = JBool(TRUE) THEN JStr("yes") ELSE JStr("no"))
      [] v.t = "bool" /\ v_variant = "filtered" ->
             (IF v = JBool(TRUE) THEN JInt(1) ELSE JInt(0))
      [] v.t # "bool" /\ v \in {JStr(""), JArr(<<>>), JObj(<<>>, <<>>), None} -> None
      [] v.t \in {"int", "float"} /\ v.n = 0 -> None
      [] OTHER -> v

\* C7: normalize(v) is the reference function: (1) a boolean maps to its
\* encoding and never reaches the zero rule, (2) "", [], {} and null map to
\* NULL, (3) a number equal to zero maps to NULL, (4) anything else is
\* returned unchanged.
C7_NormMatchesReference ==
    nstage \in {"once", "twice"} => n1 = NormReference(variant, nv)

\* false is encoded, not turned into NULL
C7_Witness ==
    /\ nstage = "once"
    /\ nv = JBool(FALSE)
    /\ n1 # None

\* the exclusion rule in the words of the filter's contract
ExcludedReference(movie) ==
    \/ Has(movie, "adult") /\ PyTruthy(Get(movie, "adult"))
    \/ ~Has(movie, "poster_path")
    \/ Get(movie, "poster_path") \in {None, JStr("")}
    \/ ~Has(movie, "overview")
    \/ Get(movie, "overview") \in {None, JStr("")}

ExcludedPositions ==
    SelectSeq(Positions, LAMBDA i : /\ LineAt(i).kind = "json"
                                    /\ ExcludedReference(LineAt(i).doc))

RetainedPositions ==
    SelectSeq(Positions, LAMBDA i : /\ LineAt(i).kind = "json"
                                    /\ ~ExcludedReference(LineAt(i).doc))

SeqRange(q) == { q[j] : j \in 1..Len(q) }

RetainedMainRows ==
    { SplitMainOf[variant][fh[RetainedPositions[k]]] : k \in 1..Len(RetainedPositions) }

RetainedChildRows(tbl) ==
    UNION { SeqRange(SplitChildrenOf[variant][fh[RetainedPositions[k]]][tbl]) :
            k \in 1..Len(RetainedPositions) }

ArrayReference(movie, tbl) ==
    IF tbl = "movie_videos"
    THEN Get(Get(movie, "videos"), "results").items
    ELSE Get(movie, ChildField(tbl)).items

\* C9: for a movie with an id, split emits for each of the six nested arrays
\* exactly one child tuple per element (none for a missing array), in array
\* order, each beginning with the movie's id.
C9_OneChildPerElement ==
    lastSplit.line # 0 =>
        LET movie == Catalogue[lastSplit.line].doc
        IN  \A tbl \in ChildTableSet :
              LET rows == lastSplit.children[tbl]
                  arr == ArrayReference(movie, tbl)
              IN  /\ Len(rows) = Len(arr)
                  /\ \A k \in 1..Len(rows) :
                       /\ rows[k][1] = Get(movie, "id")
                       /\ Len(rows[k]) = IF tbl = "movie_origin_countries" THEN 2
                                         ELSE 1 + Len(ChildFields(tbl))
                       /\ rows[k][2] =
                            _norm(variant,
                                  IF tbl = "movie_origin_countries" THEN arr[k]
                                  ELSE Get(arr[k], ChildFields(tbl)[1]))

\* the movie with every nested array was split: two genres, one video
C9_Witness ==
    /\ lastSplit.line # 0
    /\ Catalogue[lastSplit.line].doc = MovieB
    /\ Len(lastSplit.children["movie_genres"]) = 2
    /\ Len(lastSplit.children["movie_origin_countries"]) = 2
    /\ Len(lastSplit.children["movie_videos"]) = 1

IsScalarOrNull(v) == v.t \notin {"arr", "obj"}

\* C10: every value of the main tuple and of every child tuple split
\* produces, and so every value buffered or written, is NULL or a scalar,
\* never an array or an object.
C10_NoNestedValue ==
    /\ \A i \in 1..Len(lastSplit.main) : IsScalarOrNull(lastSplit.main[i])
    /\ \A tbl \in ChildTableSet :
         \A k \in 1..Len(lastSplit.children[tbl]) :
           \A i \in 1..Len(lastSplit.children[tbl][k]) :
             IsScalarOrNull(lastSplit.children[tbl][k][i])
    /\ \A k \in 1..Len(batch_main) :
         \A i \in 1..Len(batch_main[k]) : IsScalarOrNull(batch_main[k][i])

\* the accepted records whose raw id is the raw id of the record at position p
SameIdPositions(p) ==
    SelectSeq(AcceptedPositions,
              LAMBDA q : Get(LineAt(q).doc, "id") = Get(LineAt(p).doc, "id"))

\* the outcome C12 states for the id of the accepted record at position p:
\* one main row for that id, holding the values of the last record with it,
\* and in every child table the child rows of all the records with it
ReplacedAndAppended(p) ==
    LET id == Get(LineAt(p).doc, "id")
        same == SameIdPositions(p)
        last == same[Len(same)]
    IN  /\ { r \in db_main : r[1] = id } = { SplitMainOf[variant][fh[last]] }
        /\ \A tbl \in ChildTableSet :
             SelectSeq(db_children[tbl], LAMBDA r : r[1] = id) = ChildRowsOf(same, tbl)

\* C12: main-row writes replace by primary key while child-row writes
\* append: when two accepted records have the same id (in one batch or in
\* two), the run does not fail on it, the main table ends with exactly one
\* row for that id, holding the values of the later record, and each child
\* table ends with the child rows of both records.
C12_ReplaceMainAppendChildren ==
    pc = "done" =>
        \A k \in 1..Len(AcceptedPositions) :
            Len(SameIdPositions(AcceptedPositions[k])) >= 2
            => ReplacedAndAppended(AcceptedPositions[k])

\* what holds of the code: the same outcome for every repeated id other
\* than 0 (an id of 0 is stored as NULL, see C14)
C12_NonZeroIds ==
    pc = "done" =>
        \A k \in 1..Len(AcceptedPositions) :
            ( /\ Len(SameIdPositions(AcceptedPositions[k])) >= 2
              /\ Get(LineAt(AcceptedPositions[k]).doc, "id") # JInt(0) )
            => ReplacedAndAppended(AcceptedPositions[k])

\* the accepted records a flush of the log was handed: those after the rows
\* of the flushes before it
FlushPositions(k) ==
    LET before == Len(HandedMain(SubSeq(flushLog, 1, k - 1)))
    IN  SubSeq(AcceptedPositions, before + 1, before + Len(flushLog[k].main))

\* the accepted records whose main rows are in the main buffer: the last ones
BufferedPositions ==
    SubSeq(AcceptedPositions,
           Len(AcceptedPositions) - Len(batch_main) + 1, Len(AcceptedPositions))

\* C13: a movie's rows are never split across flushes: at every point of
\* the read loop the child buffers hold exactly the child tuples of the
\* movies whose main tuple is in the main buffer (a non-empty child buffer
\* implies a non-empty main buffer), and every flush is handed, in one
\* transaction, the main rows and all the child rows of the same movies.
C13_RowsFlushedTogether ==
    /\ pc = "loop" =>
         /\ batch_main = [ k \in 1..Len(BufferedPositions) |->
                             SplitMainOf[variant][fh[BufferedPositions[k]]] ]
         /\ \A tbl \in ChildTableSet :
              /\ batch_children[tbl] = ChildRowsOf(BufferedPositions, tbl)
              /\ batch_children[tbl] # <<>> => batch_main # <<>>
    /\ pc \in {"loop", "done", "crashed"} =>
         \A k \in 1..Len(flushLog) :
           /\ flushLog[k].main = [ j \in 1..Len(FlushPositions(k)) |->
                                     SplitMainOf[variant][fh[FlushPositions(k)[j]]] ]
           /\ \A tbl \in ChildTableSet :
                flushLog[k].children[tbl] = ChildRowsOf(FlushPositions(k), tbl)

\* after an automatic flush a movie with child rows is buffered alone
C13_Witness ==
    /\ pc = "loop"
    /\ Len(flushLog) = 1
    /\ flushLog[1].ok
    /\ Len(batch_main) = 1
    /\ batch_children["movie_genres"] # <<>>
    /\ db_children["movie_genres"] # <<>>

\* C14: child back-references resolve: for every movie split accepts, the id
\* of its main tuple equals the movie_id that begins each of its child
\* tuples, and after a run every child row's movie_id is the id of a
\* main-table row (also for a movie whose id is 0).
C14_BackReferencesResolve ==
    /\ \A tbl \in ChildTableSet :
         \A k \in 1..Len(lastSplit.children[tbl]) :
           lastSplit.children[tbl][k][1] = lastSplit.main[1]
    /\ pc = "done" =>
         \A tbl \in ChildTableSet :
           \A k \in 1..Len(db_children[tbl]) :
             \E r \in db_main : r[1] = db_children[tbl][k][1]

\* C11: run-to-run idempotence: running transfer() on the same source file
\* into the same database twice leaves the main table and the six child
\* tables as one run left them, because every run first drops and recreates
\* the seven tables: no row of the earlier run is there when the loop starts
\* and no child row is duplicated.
C11_RerunIdempotent ==
    /\ (pc = "loop" /\ flushLog = <<>>) =>
         /\ db_main = {}
         /\ db_children = EmptyChildren
    /\ (earlier.n = 2 /\ pc = "done") =>
         /\ db_main = earlier.main
         /\ db_children = earlier.children

\* a second run has finished on a file whose records have child rows
C11_Witness ==
    /\ earlier.n = 2
    /\ pc = "done"
    /\ Len(earlier.file) = 2
    /\ db_main # {}
    /\ db_children["movie_genres"] # <<>>

====
